---- MODULE Spec2Model ----
(***************************************************************************)
(* Model of the video generation orchestration of sample-video-rag:       *)
(*   monitor_video_generation, start_video_generation (notebook 02),      *)
(*   build_model_input (notebook 03), query_open_search (notebook 01),    *)
(*   read_s3_text, vrag (both definitions) and                            *)
(*   process_videos_from_prompts (notebooks 05 / 05-Multi).               *)
(* The display loop, the ingestion loop of notebook 01 and the helper     *)
(* functions (get_ssm_parameter, get_titan_multimodal_embedding,          *)
(* upload_file_to_s3, both build_model_input) have specifications of      *)
(* their own over the same variables.                                     *)
(* Python strings that the code splits on "/" (S3 URIs, object keys) are  *)
(* sequences of their "/"-separated segments; an optional value is the    *)
(* empty sequence (None) or a one-element sequence.                       *)
(***************************************************************************)
EXTENDS Integers, Sequences, FiniteSets, TLC

VARIABLES
    entry,          \* which function of the notebooks is running
    prompt_list,    \* process_videos_from_prompts: argument
    object_prompt,  \* process_videos_from_prompts: argument
    image_prompt,   \* vrag: argument
    camera_prompt,  \* vrag: argument
    pc,             \* position of the running function
    i,              \* process_videos_from_prompts: 1-based loop index
    results,        \* local: hits returned by query_open_search
    image_base64,   \* local: value returned by read_s3_text
    model_input,    \* local: payload built by build_model_input
    invocation_arn, \* local: handle returned by start_async_invoke
    status,         \* monitor_video_generation: local status
    video_uris,     \* process_videos_from_prompts: collected tuples
    ret,            \* value returned by the running function
    err,            \* exception that left the running function
    calls,          \* external calls of the current attempt, in order
    lookups,        \* history: one entry per query_open_search result
    submissions,    \* history: one entry per start_async_invoke call
    store,          \* documents held by the vector index
    njobs,          \* jobs created by the generation service
    video_html,     \* display loop: the entries put into the page
    args            \* helper functions and ingestion: the arguments

vars == <<entry, prompt_list, object_prompt, image_prompt, camera_prompt,
          pc, i, results, image_base64, model_input, invocation_arn, status,
          video_uris, ret, err, calls, lookups, submissions, store, njobs,
          video_html, args>>

----------------------------------------------------------------------------
(* Bounds *)

MaxPrompts == 2
MaxPolls == 2
MaxImages == 3

----------------------------------------------------------------------------
(* Program constants *)

PollInterval == 60
EmbeddingDimension == 1024
IngestInterval == 5
OUTPUT_DIR == "output_video"
TopK_Default == 3
TopK == 1
Duration == 6
Fps == 24
Seed == 0
Resolution == "1280x720"
BUCKET == "bucket"
action_prompt == "A tight ground-level shot capturing dog"
inpainted_image_s3_key_file == <<"inpainted_images", "dog.jpg">>

----------------------------------------------------------------------------
(* Value domains *)

None == <<>>
Some(x) == <<x>>

Prompts == {"orbit <object_prompt>", "zoom <object_prompt>"}
Concepts == {"red shoes", "dog"}
CameraPrompts == {action_prompt, "dogA tight ground-level shot capturing dog"}
AssetNames == {"shoes.txt", "dog.txt"}
FailureReasons == {"content policy", "internal error", ""}
Statuses == {"InProgress", "Completed", "Failed", "Submitted"}

\* f"s3://{bucket}" split on "/"
BucketUri(bucket) == <<"s3:", "", bucket>>

\* the document written by the ingestion loop for one source image
Document(name) ==
    [ description |-> name,
      image_base64_s3_uri |-> BucketUri(BUCKET) \o <<"base64_images", name>>,
      image_s3_uri |-> BucketUri(BUCKET) \o <<"images", name>> ]

\* content of the base64 text object stored under a key
ObjectBody(key) ==
    IF key = inpainted_image_s3_key_file THEN "b64:inpainted"
    ELSE IF key = <<"base64_images", "shoes.txt">> THEN "b64:shoes"
    ELSE IF key = <<"base64_images", "dog.txt">> THEN "b64:dog"
    ELSE "b64:other"

----------------------------------------------------------------------------
(* Pure functions *)

\* "/".join(uri.split('/')[3:])
FileKey(uri) == SubSeq(uri, 4, Len(uri))

\* Python truthiness of an optional string
Truthy(opt) == opt # None /\ opt[1] # ""

build_model_input(prompt, image, duration, fps, resolution, seed) ==
    [ taskType |-> "TEXT_VIDEO",
      text |-> prompt,
      images |-> IF Truthy(image)
                 THEN << [format |-> "png", bytes |-> image[1]] >>
                 ELSE << >>,
      durationSeconds |-> duration,
      fps |-> fps,
      dimension |-> resolution,
      seed |-> seed ]

OutputLocation_NoSuffix(s3_uri) == s3_uri

\* f"{s3_uri}/output.mp4"
OutputLocation(s3_uri) == s3_uri \o <<"output.mp4">>

\* every sequence over S of length at most n
SeqsUpTo(S, n) == UNION { [1..k -> S] : k \in 0..n }

\* hits the search service can return for a request of the given size:
\* ranked, distinct, taken from the index, at most `size` of them
SearchHits(size) ==
    { q \in SeqsUpTo({ Document(a) : a \in store }, size) :
        \A a, b \in 1..Len(q) : a # b => q[a] # q[b] }

StoreAfterSearch_Evicts(index) == {}

\* the index after oss_client.search: a search request is a read
StoreAfterSearch(index) == index


----------------------------------------------------------------------------
(* External services: the answers they can give *)

NoError == [type |-> "", msg |-> ""]

\* exceptions a boto3 call can raise: a ClientError carries .response,
\* a connection error does not
ServiceErrors ==
    { [type |-> "ClientError", msg |-> "AccessDenied", hasResponse |-> TRUE],
      [type |-> "EndpointConnectionError", msg |-> "unreachable",
       hasResponse |-> FALSE] }

GetObjectResponses(key) ==
    { [ok |-> TRUE, body |-> ObjectBody(key)],
      [ok |-> TRUE, body |-> ""],
      [ok |-> FALSE, body |-> ""] }

\* output directory the service reports for a job: declared location
\* followed by the job's id
JobOutputUri(arn) ==
    BucketUri(BUCKET) \o << IF arn % 2 = 1 THEN "out1" ELSE "out2" >>

GetAsyncInvokeResponses(arn) ==
    { [status |-> s, s3Uri |-> JobOutputUri(arn), failureMessage |-> "",
       submitTime |-> "t0"] : s \in Statuses \ {"Failed"} }
    \cup
    { [status |-> "Failed", s3Uri |-> JobOutputUri(arn), failureMessage |-> r,
       submitTime |-> "t0"] : r \in FailureReasons }

----------------------------------------------------------------------------
(* Decisions of the code *)

Batch == "process_videos_from_prompts"
Vrag == "vrag"
VragInpainting == "vrag_inpainting"

IsMiss_Never(hits) == FALSE

IsMiss_Inverted(hits) == hits # <<>>

\* `if not results:`
IsMiss(hits) == hits = <<>>

AfterSkip_Break(idx, n) == n + 1

\* `continue` in the loop of process_videos_from_prompts: the index of the
\* item the loop handles next
AfterSkip(idx, n) == idx + 1

\* read_s3_text: the decoded body, or None when get_object raised
read_s3_text(resp) == IF resp.ok THEN Some(resp.body) ELSE None

\* the prompt an attempt hands to build_model_input
PromptText_First(fn, plist, idx, camera) ==
    IF fn = Batch THEN plist[1]
    ELSE IF fn = Vrag THEN camera
    ELSE action_prompt

PromptText(fn, plist, idx, camera) ==
    IF fn = Batch THEN plist[idx]
    ELSE IF fn = Vrag THEN camera
    ELSE action_prompt

\* the prompt an attempt hands to query_open_search
SearchPrompt(fn, object, image) == IF fn = Batch THEN object ELSE image

LoopContinues_Once(st) == FALSE

LoopContinues_KnownOnly(st) == st = "InProgress"

\* `while status not in ["Completed", "Failed"]`
LoopContinues(st) == st \notin {"Completed", "Failed"}

AfterPoll_NoReturn(st) ==
    IF st = "Failed" THEN "raised" ELSE "sleep"

AfterPoll_NoRaise(st) ==
    IF st = "Completed" THEN "returned" ELSE "sleep"

AfterPoll_FireAndForget(st) ==
    IF st = "Failed" THEN "raised" ELSE "returned"

AfterPoll_PendingRaises(st) ==
    IF st = "Completed" THEN "returned" ELSE "raised"

AfterPoll_NoSleep(st) ==
    IF st = "Completed" THEN "returned"
    ELSE IF st = "Failed" THEN "raised"
    ELSE "poll"

\* where monitor_video_generation goes after reading a response's status
AfterPoll(st) ==
    IF st = "Completed" THEN "returned"
    ELSE IF st = "Failed" THEN "raised"
    ELSE "sleep"

MonitorError_NoText(response) ==
    [type |-> "RuntimeError", msg |-> ""]

\* raise RuntimeError("Video generation failed.")
MonitorError(response) ==
    [type |-> "RuntimeError", msg |-> "Video generation failed."]

\* print(f"Job {invocation_arn} failed. Reason: {response['failureMessage']}")
FailureLog(arn, response) ==
    [op |-> "print", invocationArn |-> arn, text |-> response.failureMessage]

\* print(f"Job {invocation_arn} is in progress. Started at: ...")
ProgressLog(arn, response) ==
    [op |-> "print", invocationArn |-> arn, text |-> "in progress"]

\* print(f"Video generation completed. Video available at: ...")
CompletedLog(arn, response) ==
    [op |-> "print", invocationArn |-> arn, text |-> "completed"]

\* what one pass of the loop of monitor_video_generation prints
PollLog(arn, response) ==
    IF response.status = "Completed" THEN << CompletedLog(arn, response) >>
    ELSE IF response.status = "InProgress" THEN << ProgressLog(arn, response) >>
    ELSE IF response.status = "Failed" THEN << FailureLog(arn, response) >>
    ELSE << >>

PollError_Wrapped(e) ==
    [type |-> "RuntimeError", msg |-> "Video generation failed."]

\* an exception of get_async_invoke inside the loop: no try, it leaves
\* monitor_video_generation as it is
PollError(e) == [type |-> e.type, msg |-> e.msg]

AfterStartError_Retry(e) == "start"

\* where start_video_generation goes when start_async_invoke raised:
\* the except clause ends in `raise`
AfterStartError(e) == "raised"

\* print(f"Error starting video generation: {error_message}"), reached
\* when reading e.response did not raise
StartLog(e) ==
    IF e.hasResponse
    THEN << [op |-> "print", invocationArn |-> 0, text |-> e.msg] >>
    ELSE << >>

\* the except clause of start_video_generation: reads e.response, then
\* re-raises; e.response on an exception without it raises AttributeError
StartError(e) ==
    IF e.hasResponse THEN [type |-> e.type, msg |-> e.msg]
    ELSE [type |-> "AttributeError", msg |-> "response"]

\* polls of the current attempt that got a non-terminal status
NonTerminalPolls ==
    Cardinality({ k \in 1..Len(calls) :
        /\ calls[k].op = "get_async_invoke"
        /\ calls[k].status \notin {"Completed", "Failed", "raise"} })

----------------------------------------------------------------------------
(* Initial state: a function is called with its arguments *)

Init ==
    /\ entry \in {Batch, Vrag, VragInpainting}
    /\ store \in SUBSET AssetNames
    /\ IF entry = Batch
       THEN /\ prompt_list \in SeqsUpTo(Prompts, MaxPrompts)
            /\ object_prompt \in Concepts
            /\ image_prompt = ""
            /\ camera_prompt = ""
       ELSE /\ prompt_list = <<>>
            /\ object_prompt = ""
            /\ image_prompt \in Concepts
            /\ camera_prompt \in CameraPrompts
    /\ pc = IF entry = VragInpainting THEN "read" ELSE "query"
    /\ i = 1
    /\ results = <<>>
    /\ image_base64 = None
    /\ model_input = build_model_input("", None, Duration, Fps, Resolution, Seed)
    /\ invocation_arn = 0
    /\ status = "InProgress"
    /\ video_uris = <<>>
    /\ ret = None
    /\ err = NoError
    /\ calls = <<>>
    /\ lookups = <<>>
    /\ submissions = <<>>
    /\ njobs = 0
    /\ video_html = <<>>
    /\ args = None

----------------------------------------------------------------------------
(* Steps *)

\* the function ends by raising e
Raise(e) ==
    /\ pc' = "raised"
    /\ err' = e

\* monitor_video_generation returned uri to its caller
MonitorReturns(uri) ==
    IF entry = Batch
    THEN /\ video_uris' = Append(video_uris, <<uri, prompt_list[i]>>)
         /\ i' = i + 1
         /\ pc' = "query"
         /\ UNCHANGED ret
    ELSE /\ ret' = uri
         /\ pc' = "returned"
         /\ UNCHANGED <<video_uris, i>>

\* query_open_search and the `if not results` test that follows it
Query ==
    /\ pc = "query"
    /\ entry = Batch => i <= Len(prompt_list)
    /\ LET prompt == SearchPrompt(entry, object_prompt, image_prompt)
           embed == [op |-> "invoke_model", inputText |-> prompt]
           search == [op |-> "search", prompt |-> prompt,
                      size |-> TopK, k |-> TopK]
       IN
       \/ \E e \in ServiceErrors :
            /\ calls' = <<embed, search>>
            /\ Raise([type |-> e.type, msg |-> e.msg])
            /\ UNCHANGED <<i, results, ret, lookups>>
       \/ \E hits \in SearchHits(TopK) :
            /\ calls' = <<embed, search>>
            /\ results' = hits
            /\ lookups' = Append(lookups,
                   [item |-> i, prompt |-> prompt, hits |-> hits])
            /\ UNCHANGED err
            /\ IF IsMiss(hits)
               THEN IF entry = Batch
                    THEN /\ i' = AfterSkip(i, Len(prompt_list))
                         /\ pc' = "query"
                         /\ UNCHANGED ret
                    ELSE /\ ret' = None
                         /\ pc' = "returned"
                         /\ UNCHANGED i
               ELSE /\ pc' = "read"
                    /\ UNCHANGED <<i, ret>>
    /\ UNCHANGED <<args, video_html, entry, prompt_list, object_prompt, image_prompt,
                   camera_prompt, image_base64, model_input, invocation_arn,
                   status, video_uris, submissions, njobs>>
    /\ store' = StoreAfterSearch(store)

\* the loop of process_videos_from_prompts is exhausted: return video_uris
BatchReturn ==
    /\ pc = "query"
    /\ entry = Batch
    /\ i > Len(prompt_list)
    /\ ret' = video_uris
    /\ pc' = "returned"
    /\ UNCHANGED <<args, video_html, entry, prompt_list, object_prompt, image_prompt,
                   camera_prompt, i, results, image_base64, model_input,
                   invocation_arn, status, video_uris, err, calls, lookups,
                   submissions, store, njobs>>

\* read_s3_text of the asset, then build_model_input
Read ==
    /\ pc = "read"
    /\ IF entry # VragInpainting /\ results = <<>>
       THEN \* results[0] of an empty list
            /\ Raise([type |-> "IndexError", msg |-> "list index out of range"])
            /\ UNCHANGED <<image_base64, model_input, calls>>
       ELSE LET key == IF entry = VragInpainting
                       THEN inpainted_image_s3_key_file
                       ELSE FileKey(results[1].image_base64_s3_uri)
                prompt == PromptText(entry, prompt_list, i, camera_prompt)
            IN \E resp \in GetObjectResponses(key) :
                 /\ image_base64' = read_s3_text(resp)
                 /\ model_input' = build_model_input(prompt, image_base64',
                                       Duration, Fps, Resolution, Seed)
                 /\ calls' = Append(calls, [op |-> "get_object",
                                            bucket |-> BUCKET, key |-> key])
                 /\ pc' = "start"
                 /\ UNCHANGED err
    /\ UNCHANGED <<args, video_html, entry, prompt_list, object_prompt, image_prompt,
                   camera_prompt, i, results, invocation_arn, status,
                   video_uris, ret, lookups, submissions, store, njobs>>

\* start_video_generation, then the first line of monitor_video_generation
Start ==
    /\ pc = "start"
    /\ LET call(raised) == [op |-> "start_async_invoke",
                            modelId |-> "amazon.nova-reel-v1:0",
                            modelInput |-> model_input,
                            s3Uri |-> BucketUri(BUCKET),
                            raised |-> raised]
       IN
       /\ \/ /\ calls' = Append(calls, call(NoError))
             /\ njobs' = njobs + 1
             /\ invocation_arn' = njobs + 1
             /\ submissions' = Append(submissions,
                    [item |-> i, modelInput |-> model_input,
                     invocationArn |-> njobs + 1])
             /\ status' = "InProgress"
             /\ pc' = "poll"
             /\ UNCHANGED err
          \/ \E e \in ServiceErrors :
             /\ calls' = calls
                    \o << call([type |-> e.type, msg |-> e.msg]) >>
                    \o StartLog(e)
             /\ submissions' = Append(submissions,
                    [item |-> i, modelInput |-> model_input,
                     invocationArn |-> 0])
             /\ IF AfterStartError(e) = "raised"
                THEN Raise(StartError(e))
                ELSE pc' = AfterStartError(e) /\ UNCHANGED err
             /\ UNCHANGED <<njobs, invocation_arn, status>>
    /\ UNCHANGED <<args, video_html, entry, prompt_list, object_prompt, image_prompt,
                   camera_prompt, i, results, image_base64, model_input,
                   video_uris, ret, lookups, store>>

\* one pass of the loop body of monitor_video_generation up to time.sleep
Poll ==
    /\ pc = "poll"
    /\ \/ \E e \in ServiceErrors :
            /\ calls' = Append(calls, [op |-> "get_async_invoke",
                   invocationArn |-> invocation_arn, status |-> "raise",
                   s3Uri |-> <<>>, failureMessage |-> "",
                   raised |-> [type |-> e.type, msg |-> e.msg]])
            /\ Raise(PollError(e))
            /\ UNCHANGED <<status, video_uris, i, ret>>
       \/ \E response \in GetAsyncInvokeResponses(invocation_arn) :
            LET poll == [op |-> "get_async_invoke",
                         invocationArn |-> invocation_arn,
                         status |-> response.status,
                         s3Uri |-> response.s3Uri,
                         failureMessage |-> response.failureMessage,
                         raised |-> NoError]
                next == AfterPoll(response.status)
            IN
            /\ LoopContinues(response.status) => NonTerminalPolls < MaxPolls
            /\ status' = response.status
            /\ calls' = calls \o <<poll>> \o PollLog(invocation_arn, response)
            /\ IF next = "returned"
               THEN /\ MonitorReturns(Some(OutputLocation(response.s3Uri)))
                    /\ UNCHANGED err
               ELSE IF next = "raised"
               THEN /\ Raise(MonitorError(response))
                    /\ UNCHANGED <<video_uris, i, ret>>
               ELSE /\ pc' = next
                    /\ UNCHANGED <<video_uris, i, ret, err>>
    /\ UNCHANGED <<args, video_html, entry, prompt_list, object_prompt, image_prompt,
                   camera_prompt, results, image_base64, model_input,
                   invocation_arn, lookups, submissions, store, njobs>>

\* time.sleep(60), then the loop condition; a loop that ends without a
\* return makes the function return None
Sleep ==
    /\ pc = "sleep"
    /\ calls' = Append(calls, [op |-> "sleep", seconds |-> PollInterval])
    /\ IF LoopContinues(status)
       THEN /\ pc' = "poll"
            /\ UNCHANGED <<video_uris, i, ret>>
       ELSE MonitorReturns(None)
    /\ UNCHANGED <<args, video_html, entry, prompt_list, object_prompt, image_prompt,
                   camera_prompt, results, image_base64, model_input,
                   invocation_arn, status, err, lookups, submissions, store,
                   njobs>>

Next ==
    \/ Query
    \/ BatchReturn
    \/ Read
    \/ Start
    \/ Poll
    \/ Sleep

Spec == Init /\ [][Next]_vars

----------------------------------------------------------------------------
(* The display loop over the result of a batch *)

DisplayLoop == "display_loop"

\* `if not video_uri:` for an optional string
IsMissingUri(uri) == uri = None \/ uri[1] = <<"">>

\* os.path.join(OUTPUT_DIR, f"video_{i+1}.mp4"), idx being i+1
LocalVideoPath(idx) == <<OUTPUT_DIR, idx>>

AfterDownloadError_Stop(idx, n) == n + 1

\* the except clause of the display loop prints and falls through to the
\* next entry
AfterDownloadError(idx, n) == idx + 1

\* the lists the display cell can be run on
DisplayInputs ==
    SeqsUpTo({ <<u, p>> :
                 u \in {None, Some(<<"">>), Some(OutputLocation(JobOutputUri(1)))},
                 p \in Prompts }, MaxPrompts)

InitDisplay ==
    /\ entry = DisplayLoop
    /\ video_uris \in DisplayInputs
    /\ pc = "display"
    /\ i = 1
    /\ video_html = <<>>
    /\ args = None
    /\ calls = <<>>
    /\ err = NoError
    /\ ret = None
    /\ store = {}
    /\ prompt_list = <<>>
    /\ object_prompt = ""
    /\ image_prompt = ""
    /\ camera_prompt = ""
    /\ results = <<>>
    /\ image_base64 = None
    /\ model_input = build_model_input("", None, Duration, Fps, Resolution, Seed)
    /\ invocation_arn = 0
    /\ status = "InProgress"
    /\ lookups = <<>>
    /\ submissions = <<>>
    /\ njobs = 0

\* one iteration of the display loop
DisplayEntry ==
    /\ pc = "display"
    /\ i <= Len(video_uris)
    /\ LET video_uri == video_uris[i][1]
           formatted_prompt == video_uris[i][2]
       IN
       IF IsMissingUri(video_uri)
       THEN /\ calls' = Append(calls,
                   [op |-> "print", index |-> i, text |-> "skip"])
            /\ i' = i + 1
            /\ UNCHANGED video_html
       ELSE LET download(ok) ==
                    [op |-> "download_file", index |-> i, bucket |-> BUCKET,
                     key |-> FileKey(video_uri[1]),
                     path |-> LocalVideoPath(i), ok |-> ok]
            IN
            \/ /\ calls' = Append(calls, download(TRUE))
               /\ video_html' = Append(video_html,
                      [index |-> i, prompt |-> formatted_prompt,
                       src |-> LocalVideoPath(i)])
               /\ i' = i + 1
            \/ /\ calls' = calls \o
                      << download(FALSE),
                         [op |-> "print", index |-> i, text |-> "error"] >>
               /\ i' = AfterDownloadError(i, Len(video_uris))
               /\ UNCHANGED video_html
    /\ UNCHANGED <<args, entry, prompt_list, object_prompt, image_prompt,
                   camera_prompt, pc, results, image_base64, model_input,
                   invocation_arn, status, video_uris, ret, err, lookups,
                   submissions, store, njobs>>

\* display(HTML(video_html)) after the loop
DisplayPage ==
    /\ pc = "display"
    /\ i > Len(video_uris)
    /\ pc' = "displayed"
    /\ ret' = video_html
    /\ UNCHANGED <<args, entry, prompt_list, object_prompt, image_prompt,
                   camera_prompt, i, results, image_base64, model_input,
                   invocation_arn, status, video_uris, err, calls, lookups,
                   submissions, store, njobs, video_html>>

NextDisplay ==
    \/ DisplayEntry
    \/ DisplayPage

SpecDisplay == InitDisplay /\ [][NextDisplay]_vars

----------------------------------------------------------------------------
(* Helper functions of the notebooks, called on their own *)

\* the variables of the generation flow, which the helpers do not touch
generationVars ==
    <<prompt_list, object_prompt, image_prompt, camera_prompt, results,
      image_base64, model_input, invocation_arn, status, video_uris,
      lookups, submissions, njobs, video_html>>

GenerationIdle ==
    /\ prompt_list = <<>>
    /\ object_prompt = ""
    /\ image_prompt = ""
    /\ camera_prompt = ""
    /\ results = <<>>
    /\ image_base64 = None
    /\ model_input = build_model_input("", None, Duration, Fps, Resolution, Seed)
    /\ invocation_arn = 0
    /\ status = "InProgress"
    /\ video_uris = <<>>
    /\ lookups = <<>>
    /\ submissions = <<>>
    /\ njobs = 0
    /\ video_html = <<>>

\* the parameters the bootstrap cell asks for: f"/{stack_name}/..."
ParameterNames ==
    {"collection-name", "index-name", "collection-endpoint", "s3-bucket"}

\* answers of ssm.get_parameter: the value, or an exception
GetParameterResponses(name) ==
    { [ok |-> TRUE, value |-> "value of " \o name, error |-> NoError] }
    \cup { [ok |-> FALSE, value |-> "",
            error |-> [type |-> e.type, msg |-> e.msg]] :
            e \in ServiceErrors \cup
                  { [type |-> "ParameterNotFound", msg |-> name,
                     hasResponse |-> TRUE] } }

get_ssm_parameter_EmptyOnError(resp) ==
    Some(IF resp.ok THEN resp.value ELSE "")

\* get_ssm_parameter: response['Parameter']['Value'], or None when
\* get_parameter raised
get_ssm_parameter(resp) == IF resp.ok THEN Some(resp.value) ELSE None

\* the print of an except clause that logs and goes on
ErrorLog(ok, text) ==
    IF ok THEN << >> ELSE << [op |-> "print", text |-> text] >>

EmbeddingPayload_ImageFirst(image_path, description, dimension) ==
    [ inputImage |-> IF Truthy(image_path)
                     THEN Some(<<"encoded", image_path[1]>>) ELSE None,
      inputText |-> IF ~Truthy(image_path) /\ Truthy(description)
                    THEN description ELSE None,
      outputEmbeddingLength |-> dimension ]

\* the request body of get_titan_multimodal_embedding: payload_body
\* filled by `if image_path:` and `if description:`, and embeddingConfig
EmbeddingPayload(image_path, description, dimension) ==
    [ inputImage |-> IF Truthy(image_path)
                     THEN Some(<<"encoded", image_path[1]>>) ELSE None,
      inputText |-> IF Truthy(description) THEN description ELSE None,
      outputEmbeddingLength |-> dimension ]

\* optional strings a caller can pass
OptionalStrings(S) == {None, Some("")} \cup { Some(x) : x \in S }

HelperArgs(fn) ==
    IF fn = "get_ssm_parameter"
    THEN { [parameter_name |-> n] : n \in ParameterNames }
    ELSE IF fn = "get_titan_multimodal_embedding"
    THEN [ image_path : OptionalStrings({"images/shoes.jpg", "images/dog.jpg"}),
           description : OptionalStrings(Concepts),
           dimension : {EmbeddingDimension} ]
    ELSE IF fn = "upload_file_to_s3"
    THEN [ local_file_path : {"inpainted/dog.jpg", "inpainted/shoes.jpg"},
           bucket_name : {BUCKET},
           key_file : { inpainted_image_s3_key_file,
                        <<"inpainted_images", "shoes.jpg">> } ]
    ELSE IF fn = "build_model_input"
    THEN [ prompt : Prompts \cup {action_prompt},
           image_base64 : OptionalStrings({"b64:shoes", "b64:dog"}),
           duration : {Duration},
           fps : {Fps},
           resolution : {Resolution},
           seed : {Seed, Seed + 1} ]
    ELSE \* read_s3_text
         { [bucket_name |-> BUCKET, file_key |-> k] :
             k \in { inpainted_image_s3_key_file }
                   \cup { <<"base64_images", a>> : a \in AssetNames } }

HelperNames ==
    {"get_ssm_parameter", "read_s3_text", "get_titan_multimodal_embedding",
     "upload_file_to_s3", "build_model_input"}

\* base64.b64encode(image_file.read()).decode('utf-8')
EncodedFile(path) == <<"b64", path>>

\* what can happen inside the try of upload_file_to_s3
UploadOutcomes ==
    { [stored |-> TRUE, read |-> TRUE, error |-> NoError],
      [stored |-> FALSE, read |-> FALSE,
       error |-> [type |-> "FileNotFoundError", msg |-> "no such file"]] }
    \cup { [stored |-> FALSE, read |-> TRUE,
            error |-> [type |-> e.type, msg |-> e.msg]] : e \in ServiceErrors }

upload_file_to_s3_AlwaysTrue(outcome) == TRUE

\* upload_file_to_s3: True at the end of the try, False from both except
\* clauses
upload_file_to_s3(outcome) == outcome.error = NoError

\* the print of an except clause of upload_file_to_s3
UploadErrorLog(outcome) ==
    IF outcome.error = NoError THEN << >>
    ELSE IF outcome.error.type = "ClientError"
    THEN << [op |-> "print", text |-> "Error uploading file to S3"] >>
    ELSE << [op |-> "print", text |-> "Error processing file"] >>

build_model_input_text_only_NoImages(prompt, image, duration, fps, resolution, seed) ==
    [ taskType |-> "TEXT_VIDEO",
      text |-> prompt,
      images |-> None,
      durationSeconds |-> duration,
      fps |-> fps,
      dimension |-> resolution,
      seed |-> seed ]

\* build_model_input of the text-only notebook: the "images" key is set
\* only `if image_base64:`; images is None when the key is absent
build_model_input_text_only(prompt, image, duration, fps, resolution, seed) ==
    [ taskType |-> "TEXT_VIDEO",
      text |-> prompt,
      images |-> IF Truthy(image)
                 THEN Some(<< [format |-> "png", bytes |-> image[1]] >>)
                 ELSE None,
      durationSeconds |-> duration,
      fps |-> fps,
      dimension |-> resolution,
      seed |-> seed ]

InitHelpers ==
    /\ entry \in HelperNames
    /\ args \in HelperArgs(entry)
    /\ pc = "call"
    /\ i = 1
    /\ ret = None
    /\ err = NoError
    /\ calls = <<>>
    /\ store = {}
    /\ GenerationIdle

\* get_ssm_parameter(parameter_name)
GetSsmParameter ==
    /\ pc = "call"
    /\ entry = "get_ssm_parameter"
    /\ \E resp \in GetParameterResponses(args.parameter_name) :
         /\ calls' = << [op |-> "get_parameter",
                         Name |-> args.parameter_name,
                         ok |-> resp.ok, value |-> resp.value] >>
                     \o ErrorLog(resp.ok, resp.error.msg)
         /\ ret' = get_ssm_parameter(resp)
    /\ pc' = "returned"
    /\ UNCHANGED <<entry, args, i, err, store, generationVars>>

\* read_s3_text(bucket_name, file_key)
ReadS3Text ==
    /\ pc = "call"
    /\ entry = "read_s3_text"
    /\ \E resp \in GetObjectResponses(args.file_key) :
         /\ calls' = << [op |-> "get_object", Bucket |-> args.bucket_name,
                         Key |-> args.file_key,
                         ok |-> resp.ok, value |-> resp.body] >>
                     \o ErrorLog(resp.ok, "Error reading file from S3")
         /\ ret' = read_s3_text(resp)
    /\ pc' = "returned"
    /\ UNCHANGED <<entry, args, i, err, store, generationVars>>

\* get_titan_multimodal_embedding(bedrock_runtime, image_path,
\* description, dimension): no try, an exception leaves the function
GetTitanMultimodalEmbedding ==
    /\ pc = "call"
    /\ entry = "get_titan_multimodal_embedding"
    /\ LET body == EmbeddingPayload(args.image_path, args.description,
                                    args.dimension)
           request == [op |-> "invoke_model",
                       modelId |-> "amazon.titan-embed-image-v1",
                       body |-> body]
       IN
       \/ \* open(image_path, "rb") or resize_and_encode raised
          /\ Truthy(args.image_path)
          /\ Raise([type |-> "FileNotFoundError", msg |-> args.image_path[1]])
          /\ UNCHANGED <<calls, ret>>
       \/ /\ calls' = << request >>
          /\ ret' = Some([embedding |-> body])
          /\ pc' = "returned"
          /\ UNCHANGED err
       \/ \E e \in ServiceErrors :
            /\ calls' = << request >>
            /\ Raise([type |-> e.type, msg |-> e.msg])
            /\ UNCHANGED ret
    /\ UNCHANGED <<entry, args, i, store, generationVars>>

\* upload_file_to_s3(local_file_path, bucket_name, key_file)
UploadFileToS3 ==
    /\ pc = "call"
    /\ entry = "upload_file_to_s3"
    /\ \E outcome \in UploadOutcomes :
         LET put == [op |-> "put_object",
                     Body |-> EncodedFile(args.local_file_path),
                     Bucket |-> args.bucket_name, Key |-> args.key_file,
                     ok |-> outcome.stored]
         IN
         /\ calls' = (IF outcome.read THEN << put >> ELSE << >>)
                        \o UploadErrorLog(outcome)
         /\ ret' = Some(upload_file_to_s3(outcome))
    /\ pc' = "returned"
    /\ UNCHANGED <<entry, args, i, err, store, generationVars>>

\* build_model_input of both notebooks applied to the same arguments
BuildModelInput ==
    /\ pc = "call"
    /\ entry = "build_model_input"
    /\ ret' = [ text_only |->
                  build_model_input_text_only(args.prompt, args.image_base64,
                      args.duration, args.fps, args.resolution, args.seed),
                text_image |->
                  build_model_input(args.prompt, args.image_base64,
                      args.duration, args.fps, args.resolution, args.seed) ]
    /\ pc' = "returned"
    /\ UNCHANGED <<entry, args, i, err, calls, store, generationVars>>

NextHelpers ==
    \/ GetSsmParameter
    \/ ReadS3Text
    \/ GetTitanMultimodalEmbedding
    \/ UploadFileToS3
    \/ BuildModelInput

SpecHelpers == InitHelpers /\ [][NextHelpers]_vars

----------------------------------------------------------------------------
(* Ingestion into the vector index (notebook 01) *)

Ingestion == "ingestion"

\* a file name: stem and extension; names sort by stem, then extension
FileNames == [stem : 1..MaxImages, ext : {"jpg", "png"}]

NameBefore(f, g) ==
    \/ f.stem < g.stem
    \/ f.stem = g.stem /\ f.ext = "jpg" /\ g.ext # "jpg"

\* sorted(...) of a set of file names
RECURSIVE Sorted(_)
Sorted(S) ==
    IF S = {} THEN << >>
    ELSE LET first == CHOOSE f \in S : \A g \in S \ {f} : NameBefore(f, g)
         IN << first >> \o Sorted(S \ {first})

\* load_image_paths: the .jpg files of the images directory, sorted
load_image_paths(dir) == Sorted({ f \in dir : f.ext = "jpg" })

\* os.path.basename(img_path).replace(".jpg", ".txt")
Base64Name(f) == [stem |-> f.stem, ext |-> "txt"]

\* sorted .txt files of the base64 directory, one saved per image path
Base64Images(dir) == Sorted({ Base64Name(f) : f \in { g \in dir : g.ext = "jpg" } })

\* sorted .jpg and .png files of the images directory
Images(dir) == Sorted({ f \in dir : f.ext \in {"jpg", "png"} })

\* embeddings and image_descriptions: one per image path, in that order
Embeddings(dir) ==
    [k \in 1..Len(load_image_paths(dir)) |->
        [embedding |-> load_image_paths(dir)[k]]]

ImageDescriptions(dir) ==
    [k \in 1..Len(load_image_paths(dir)) |-> load_image_paths(dir)[k]]

Min(a, b) == IF a < b THEN a ELSE b

\* number of tuples zip(...) yields: the length of its shortest argument
ZipLen(dir) ==
    Min(Min(Len(Embeddings(dir)), Len(ImageDescriptions(dir))),
        Min(Len(Base64Images(dir)), Len(Images(dir))))

\* the document of the k-th tuple of the zip
IngestDocument(dir, k) ==
    [ image_vector |-> Embeddings(dir)[k].embedding,
      description |-> ImageDescriptions(dir)[k],
      image_base64_s3_uri |->
          BucketUri(BUCKET) \o <<"base64_images", Base64Images(dir)[k]>>,
      image_s3_uri |-> BucketUri(BUCKET) \o <<"images", Images(dir)[k]>> ]

AfterIndex_NoSleep == "index"

\* what follows oss_client.index in the loop body: time.sleep(5)
AfterIndex == "pause"

InitIngest ==
    /\ entry = Ingestion
    /\ args \in [images_dir : SUBSET FileNames]
    /\ pc = "index"
    /\ i = 1
    /\ ret = None
    /\ err = NoError
    /\ calls = <<>>
    /\ store = {}
    /\ GenerationIdle

\* the loop body up to oss_client.index(index=INDEX_NAME, body=document)
IndexDocument ==
    /\ pc = "index"
    /\ entry = Ingestion
    /\ i <= ZipLen(args.images_dir)
    /\ LET document == IngestDocument(args.images_dir, i)
       IN
       \/ /\ calls' = Append(calls, [op |-> "index", body |-> document])
          /\ store' = store \cup {document}
          /\ pc' = AfterIndex
          /\ i' = IF AfterIndex = "index" THEN i + 1 ELSE i
          /\ UNCHANGED err
       \/ \E e \in ServiceErrors :
            /\ calls' = Append(calls, [op |-> "index", body |-> document])
            /\ Raise([type |-> e.type, msg |-> e.msg])
            /\ UNCHANGED <<store, i>>
    /\ UNCHANGED <<entry, args, ret, generationVars>>

\* time.sleep(5), then the next tuple of the zip
IngestPause ==
    /\ pc = "pause"
    /\ entry = Ingestion
    /\ calls' = Append(calls, [op |-> "sleep", seconds |-> IngestInterval])
    /\ i' = i + 1
    /\ pc' = "index"
    /\ UNCHANGED <<entry, args, ret, err, store, generationVars>>

\* the zip is exhausted: print("Data ingestion complete.")
IngestComplete ==
    /\ pc = "index"
    /\ entry = Ingestion
    /\ i > ZipLen(args.images_dir)
    /\ pc' = "done"
    /\ UNCHANGED <<entry, args, i, ret, err, calls, store, generationVars>>

NextIngest ==
    \/ IndexDocument
    \/ IngestPause
    \/ IngestComplete

SpecIngest == InitIngest /\ [][NextIngest]_vars

\* the notebook kernel runs the called function on: a step that can be
\* taken is taken
FairSpec == Spec /\ WF_vars(Next)

----------------------------------------------------------------------------
(* Reading the history *)

IsPoll(k) == calls[k].op = "get_async_invoke"
IsTerminalPoll(k) == IsPoll(k) /\ calls[k].status \in {"Completed", "Failed"}
IsSleep(k) == calls[k].op = "sleep"
PollIdx == { k \in 1..Len(calls) : IsPoll(k) }
SleepIdx == { k \in 1..Len(calls) : IsSleep(k) }
Ended == pc \in {"returned", "raised"}

----------------------------------------------------------------------------
(* Job Monitor *)

\* C1: once monitor_video_generation has observed a terminal status
\* (Completed or Failed) for a handle, no get_async_invoke and no sleep
\* follows for that handle: the monitor has left its loop, nothing of the
\* kind follows the terminal poll, and every poll is made on the handle of
\* the newest job, so an earlier handle is never polled again.
C1_NoPollAfterTerminal ==
    /\ \A k \in 1..Len(calls) :
         IsTerminalPoll(k) =>
            /\ pc \notin {"poll", "sleep"}
            /\ \A m \in (k + 1)..Len(calls) : ~IsPoll(m) /\ ~IsSleep(m)
    /\ \A k \in PollIdx :
         calls[k].invocationArn = invocation_arn /\ invocation_arn = njobs
    /\ \A a, b \in 1..Len(submissions) :
         (a < b /\ submissions[b].invocationArn # 0)
            => submissions[a].invocationArn < submissions[b].invocationArn

\* C1 witness: the batch monitors a second handle after the first handle
\* was observed Completed.
C1_Witness ==
    /\ entry = Batch
    /\ Len(video_uris) = 1
    /\ invocation_arn = 2
    /\ pc = "sleep"

\* C2 as stated: on Failed the raised error carries the failureMessage of
\* the response, and nothing is retried.
C2_ErrorCarriesReason ==
    \A k \in 1..Len(calls) :
        (IsPoll(k) /\ calls[k].status = "Failed") =>
            /\ pc = "raised"
            /\ err.msg = calls[k].failureMessage

\* C2 amended: on Failed the monitor prints the failureMessage of the
\* response and raises RuntimeError with the fixed text
\* "Video generation failed."; the failed poll and its print are the last
\* calls of the attempt (no resubmission, no further poll, no sleep).
C2_FailedRaisesFixedError ==
    \A k \in 1..Len(calls) :
        (IsPoll(k) /\ calls[k].status = "Failed") =>
            /\ pc = "raised"
            /\ err = [type |-> "RuntimeError",
                      msg |-> "Video generation failed."]
            /\ Len(calls) = k + 1
            /\ calls[k + 1].op = "print"
            /\ calls[k + 1].text = calls[k].failureMessage
            /\ calls[k + 1].invocationArn = calls[k].invocationArn
            /\ Cardinality({ m \in 1..Len(calls) :
                   calls[m].op = "start_async_invoke" }) = 1

\* C2 witness: a job polled once as InProgress and then as Failed with the
\* reason "content policy".
C2_Witness ==
    /\ pc = "raised"
    /\ err.type = "RuntimeError"
    /\ NonTerminalPolls = 1
    /\ \E k \in PollIdx : calls[k].failureMessage = "content policy"

----------------------------------------------------------------------------
(* Batch orchestration *)

HitLookups == { k \in 1..Len(lookups) : lookups[k].hits # <<>> }
MissLookups == { k \in 1..Len(lookups) : lookups[k].hits = <<>> }

\* the lookup made for an item
LookupOf(item) == CHOOSE l \in { lookups[k] : k \in 1..Len(lookups) } :
                      l.item = item

\* C3 as stated: in process_videos_from_prompts a job that reaches Failed
\* is turned into a skip of its item: the RuntimeError of the monitor does
\* not leave the function, and the loop goes on with the next item.
C3_FailedJobIsSkipped ==
    entry = Batch =>
        \A k \in 1..Len(calls) :
            (IsPoll(k) /\ calls[k].status = "Failed") =>
                /\ pc = "query"
                /\ err = NoError
                /\ i = submissions[Len(submissions)].item + 1

\* C4 as stated: process_videos_from_prompts returns one pair per item of
\* prompt_list, in input order, each with the prompt of its item, and the
\* pair of an item carries None exactly when the lookup of the item found
\* nothing.
C4_OnePairPerItem ==
    (entry = Batch /\ pc = "returned") =>
        /\ Len(ret) = Len(prompt_list)
        /\ \A k \in 1..Len(ret) :
             /\ ret[k][2] = prompt_list[k]
             /\ (ret[k][1] = None) <=> (lookups[k].hits = <<>>)
        /\ Cardinality({ k \in 1..Len(ret) : ret[k][1] = None })
              = Cardinality(MissLookups)

\* C5: in process_videos_from_prompts the items are looked up one by one
\* in input order and a miss moves on to the next item; start_async_invoke
\* is called once for each lookup that found an asset, in input order with
\* the prompt of that item, so that after N lookups with M misses there
\* are exactly N - M submissions; a batch that returns has looked up every
\* item.
C5_SubmissionsAreTheHits ==
    entry = Batch =>
        /\ \A k \in 1..Len(lookups) : lookups[k].item = k
        /\ Len(submissions) = Cardinality(HitLookups)
              - (IF pc \in {"read", "start"} THEN 1 ELSE 0)
        /\ \A k \in 1..Len(submissions) :
             /\ submissions[k].item \in HitLookups
             /\ Cardinality({ h \in HitLookups : h <= submissions[k].item })
                   = k
             /\ submissions[k].modelInput.text
                   = prompt_list[submissions[k].item]
        /\ \A k \in MissLookups :
             /\ i > k
             /\ (k = Len(lookups) /\ ~Ended)
                   => (i = k + 1 /\ pc = "query")
        /\ pc = "returned" =>
             /\ Len(lookups) = Len(prompt_list)
             /\ Len(submissions) = Len(prompt_list) - Cardinality(MissLookups)
        /\ (Ended /\ Len(lookups) = Len(prompt_list)) =>
             Len(submissions) = Len(prompt_list) - Cardinality(MissLookups)

\* C5 witness: a batch of two items returned after a miss on the first
\* item and a submission for the second.
C5_Witness ==
    /\ entry = Batch
    /\ pc = "returned"
    /\ Len(prompt_list) = 2
    /\ MissLookups = {1}
    /\ Len(submissions) = 1
    /\ submissions[1].item = 2

----------------------------------------------------------------------------
(* Retrieval-augmented orchestrator *)

\* C6: when query_open_search returns no hit, vrag returns None and has
\* made no start_async_invoke, no get_async_invoke, no get_object and no
\* sleep.
C6_MissReturnsNone ==
    (entry = Vrag /\ Len(lookups) >= 1 /\ lookups[1].hits = <<>>) =>
        /\ pc = "returned"
        /\ ret = None
        /\ err = NoError
        /\ submissions = <<>>
        /\ njobs = 0
        /\ \A k \in 1..Len(calls) :
             calls[k].op \in {"invoke_model", "search"}

\* C6 witness: vrag ended on a miss although the index holds documents.
C6_Witness ==
    /\ entry = Vrag
    /\ pc = "returned"
    /\ Len(lookups) = 1
    /\ lookups[1].hits = <<>>
    /\ store # {}

\* C7 as stated: every request submitted after a lookup hit carries as its
\* image the body stored under the best match's image_base64_s3_uri.
C7_SubmissionCarriesImage ==
    entry \in {Vrag, Batch} =>
        \A k \in 1..Len(submissions) :
            LET hit == LookupOf(submissions[k].item).hits[1]
            IN submissions[k].modelInput.images =
                 << [format |-> "png",
                     bytes |-> ObjectBody(FileKey(hit.image_base64_s3_uri))] >>

\* C8 as stated: for both definitions of vrag the submitted text is the
\* camera_prompt argument and a lookup was made with the image_prompt
\* argument.
C8_PromptsAreTheArguments ==
    entry \in {Vrag, VragInpainting} =>
        \A k \in 1..Len(submissions) :
            /\ submissions[k].modelInput.text = camera_prompt
            /\ Len(lookups) = 1
            /\ lookups[1].prompt = image_prompt

----------------------------------------------------------------------------
(* Job Monitor: result and pacing *)

\* the calls of the current attempt that monitor_video_generation made
MonitorCalls == SelectSeq(calls, LAMBDA c : c.op \in {"get_async_invoke", "sleep"})

\* C9: when a poll returns Completed, what monitor_video_generation hands
\* back is the s3Uri of that response followed by "/output.mp4", and only
\* that: vrag returns it, process_videos_from_prompts appends it with the
\* prompt of the item.
C9_CompletedYieldsOutputMp4 ==
    \A k \in 1..Len(calls) :
        (IsPoll(k) /\ calls[k].status = "Completed") =>
            /\ k + 1 = Len(calls)
            /\ calls[k + 1].op = "print"
            /\ err = NoError
            /\ IF entry = Batch
               THEN /\ video_uris # <<>>
                    /\ video_uris[Len(video_uris)][1]
                          = Some(calls[k].s3Uri \o <<"output.mp4">>)
                    /\ pc \in {"query", "returned"}
               ELSE /\ ret = Some(calls[k].s3Uri \o <<"output.mp4">>)
                    /\ pc = "returned"

\* C9 witness: vrag returned the location of a completed job.
C9_Witness ==
    /\ entry = Vrag
    /\ pc = "returned"
    /\ ret = Some(<<"s3:", "", BUCKET, "out1", "output.mp4">>)

\* C10: the monitor's calls alternate poll, sleep, poll, ... starting with
\* a poll; every sleep lasts 60 seconds; every poll but the last got a
\* non-terminal status; so a terminal status seen after k non-terminal
\* ones is seen by poll k+1 after exactly k sleeps, with no sleep after
\* it, and the monitor hands back a result no earlier than that poll.
C10_PollsAndSleepsAlternate ==
    LET mon == MonitorCalls
        n == Len(mon)
    IN
    /\ \A k \in 1..n :
         /\ (k % 2 = 1) => mon[k].op = "get_async_invoke"
         /\ (k % 2 = 0) => (mon[k].op = "sleep" /\ mon[k].seconds = 60)
         /\ (k % 2 = 1 /\ k < n)
               => mon[k].status \notin {"Completed", "Failed", "raise"}
    /\ (n > 0 /\ mon[n].op = "get_async_invoke"
              /\ mon[n].status \in {"Completed", "Failed"}) =>
         /\ Cardinality(PollIdx) = NonTerminalPolls + 1
         /\ Cardinality(SleepIdx) = NonTerminalPolls
         /\ pc \notin {"poll", "sleep"}
    /\ pc = "poll" => (n % 2 = 0 /\ Cardinality(SleepIdx) = NonTerminalPolls)
    /\ pc = "sleep" => (n % 2 = 1 /\ Cardinality(SleepIdx) + 1 = NonTerminalPolls)
    /\ (pc \in {"poll", "sleep"} /\ entry # Batch) => ret = None
    /\ (pc \in {"poll", "sleep"} /\ entry = Batch) => Len(video_uris) < Len(submissions)

\* C10 witness: Pending, Pending, Completed: the result is there after
\* the third poll and two sleeps.
C10_Witness ==
    /\ entry = Vrag
    /\ pc = "returned"
    /\ ret # None
    /\ Cardinality(PollIdx) = 3
    /\ Cardinality(SleepIdx) = 2
    /\ NonTerminalPolls = 2

----------------------------------------------------------------------------
(* Job Monitor: open-ended wait, termination, transport errors *)

\* every poll of the attempt so far was answered InProgress
AllPending ==
    /\ PollIdx # {}
    /\ \A k \in PollIdx : calls[k].status = "InProgress"

MonitorRunning == pc \in {"poll", "sleep"}

C11_PendingState ==
    AllPending =>
        /\ MonitorRunning
        /\ err = NoError
        /\ entry # Batch => ret = None
        /\ entry = Batch => Len(video_uris) < njobs
        /\ \A k \in PollIdx :
             /\ Len(calls) > k
             /\ calls[k + 1].op = "print"
             /\ calls[k + 1].text = "in progress"
        /\ \A k \in SleepIdx : calls[k].seconds = 60
        /\ Cardinality(SleepIdx)
              = Cardinality(PollIdx) - (IF pc = "sleep" THEN 1 ELSE 0)

C11_PendingStep ==
    /\ (AllPending /\ pc = "sleep") =>
          /\ pc' = "poll"
          /\ calls' = Append(calls, [op |-> "sleep", seconds |-> 60])
    /\ (AllPending /\ pc = "poll") =>
          /\ Len(calls') > Len(calls)
          /\ calls'[Len(calls) + 1].op = "get_async_invoke"
          /\ calls'[Len(calls) + 1].invocationArn = invocation_arn

\* C11: after n InProgress answers in a row (any n the service gives) the
\* monitor has printed the progress of each, has slept 60 seconds after
\* each but possibly the last, has neither returned nor raised, and its
\* next two steps are that sleep and poll n+1 on the same handle: no
\* backoff, no cutoff.
C11_PendingKeepsPolling ==
    []C11_PendingState /\ [][C11_PendingStep]_vars

\* C11 witness: two InProgress answers in a row, the third poll is due.
C11_Witness ==
    /\ AllPending
    /\ Cardinality(PollIdx) = 2
    /\ pc = "poll"
    /\ entry = Batch

C12_MonitorLeaves ==
    (MonitorRunning /\ ~MonitorRunning') =>
        \/ /\ status' = "Completed"
           /\ pc' \in {"returned", "query"}
           /\ IF entry = Batch
              THEN Len(video_uris') = Len(video_uris) + 1
                   /\ video_uris'[Len(video_uris')][1] # None
              ELSE ret' # None
        \/ /\ status' = "Failed"
           /\ pc' = "raised"
           /\ err'.type = "RuntimeError"
        \/ /\ pc' = "raised"
           /\ err'.type # "RuntimeError"
           /\ calls'[Len(calls')].status = "raise"

\* C12: a running monitor whose job comes to report Completed or Failed
\* (the service does so after at most MaxPolls other answers), or whose
\* status check raises, leaves its loop; and it leaves the loop only in a
\* step that read Completed (a URI is handed back) or Failed (RuntimeError)
\* or in which the status check raised: while the job reports neither, the
\* monitor goes on.
C12_TerminatesIffTerminal ==
    (MonitorRunning ~> ~MonitorRunning) /\ [][C12_MonitorLeaves]_vars

\* C12 witness: the monitor returned after two non-terminal answers.
C12_Witness ==
    /\ entry = VragInpainting
    /\ pc = "returned"
    /\ ret # None
    /\ NonTerminalPolls = 2

\* C13: an exception of get_async_invoke leaves monitor_video_generation
\* and its caller unchanged: it is the last call of the attempt (no poll,
\* no sleep, no print after it), the function has ended with that same
\* exception, and nothing was recorded for the job.
C13_TransportErrorPropagates ==
    \A k \in 1..Len(calls) :
        (IsPoll(k) /\ calls[k].status = "raise") =>
            /\ k = Len(calls)
            /\ pc = "raised"
            /\ err = calls[k].raised
            /\ ret = None
            /\ entry = Batch => Len(video_uris) = njobs - 1

\* C13 witness: the status check of the first job of a batch of two raised
\* after one InProgress answer; the second item is never reached.
C13_Witness ==
    /\ entry = Batch
    /\ Len(prompt_list) = 2
    /\ i = 1
    /\ pc = "raised"
    /\ NonTerminalPolls = 1
    /\ calls[Len(calls)].op = "get_async_invoke"
    /\ calls[Len(calls)].status = "raise"

----------------------------------------------------------------------------
(* Sequencing of submissions *)

StartIdx == { k \in 1..Len(calls) : calls[k].op = "start_async_invoke" }

\* C14: in process_videos_from_prompts at most one created job lacks a
\* recorded result; whenever the loop is before a submission (looking up,
\* fetching, about to submit) every job created so far was observed
\* Completed and recorded; while the monitor runs, its job is the only one
\* outstanding; and the only calls made are embedding, search, get_object,
\* start_async_invoke, get_async_invoke, sleep and print: nothing cancels
\* a job.
C14_OneJobAtATime ==
    entry = Batch =>
        /\ njobs - Len(video_uris) \in {0, 1}
        /\ (pc \in {"query", "read", "start"} /\ njobs > 0) =>
              /\ status = "Completed"
              /\ Len(video_uris) = njobs
        /\ MonitorRunning =>
              /\ Len(video_uris) = njobs - 1
              /\ invocation_arn = njobs
        /\ \A k \in 1..Len(calls) :
              calls[k].op \in {"invoke_model", "search", "get_object",
                               "start_async_invoke", "get_async_invoke",
                               "sleep", "print"}

\* C14 witness: the second item is about to be submitted, after the first
\* job was observed Completed.
C14_Witness ==
    /\ entry = Batch
    /\ pc = "start"
    /\ i = 2
    /\ njobs = 1
    /\ status = "Completed"

\* C15: an attempt calls start_async_invoke at most once; a call that
\* raised is the last call of its attempt but for the print of the error
\* and ends the function (no second try); the handles of the created jobs are pairwise distinct,
\* one per successful call; and every polled handle is the one returned
\* by the single start_async_invoke of the same attempt.
C15_OneSubmissionPerAttempt ==
    /\ Cardinality(StartIdx) <= 1
    /\ entry # Batch => Len(submissions) <= 1
    /\ \A a, b \in 1..Len(submissions) :
         a < b => /\ submissions[a].item < submissions[b].item
                  /\ submissions[a].invocationArn # 0
                  /\ submissions[a].invocationArn
                        # submissions[b].invocationArn
    /\ \A k \in 1..Len(submissions) :
         submissions[k].invocationArn = 0 =>
            /\ pc = "raised"
            /\ err.type \in {"ClientError", "AttributeError"}
            /\ \E s \in StartIdx :
                 \A m \in (s + 1)..Len(calls) : calls[m].op = "print"
    /\ njobs = Cardinality({ k \in 1..Len(submissions) :
                                submissions[k].invocationArn # 0 })
    /\ \A k \in PollIdx :
         /\ Cardinality(StartIdx) = 1
         /\ \A m \in StartIdx : m < k
         /\ Cardinality({ n \in 1..Len(submissions) :
               submissions[n].invocationArn = calls[k].invocationArn }) = 1
         /\ submissions[Len(submissions)].invocationArn
               = calls[k].invocationArn

\* C15 witness: start_async_invoke raised a ClientError and vrag ended
\* with it after a single call.
C15_Witness ==
    /\ entry = Vrag
    /\ pc = "raised"
    /\ err.type = "ClientError"
    /\ Len(submissions) = 1
    /\ submissions[1].invocationArn = 0

----------------------------------------------------------------------------
(* Results of a batch *)

\* every lookup of the batch found the same asset
SameHitEveryTime ==
    /\ lookups # <<>>
    /\ \A k \in 1..Len(lookups) :
         lookups[k].hits # <<>> /\ lookups[k].hits = lookups[1].hits

\* C16 as stated: a batch over N templates that returned (so every job
\* completed) and whose N lookups all found the same asset made N
\* submissions, each carrying the stored image of that asset, and holds N
\* results, each the location of the completed job of its item.
C16_SameImageForEveryTemplate ==
    (entry = Batch /\ pc = "returned" /\ SameHitEveryTime) =>
        /\ Len(submissions) = Len(prompt_list)
        /\ Len(ret) = Len(prompt_list)
        /\ \A k \in 1..Len(submissions) :
             /\ submissions[k].modelInput.images =
                  << [format |-> "png",
                      bytes |-> ObjectBody(FileKey(
                          lookups[1].hits[1].image_base64_s3_uri))] >>
             /\ submissions[k].modelInput.images
                   = submissions[1].modelInput.images
             /\ ret[k][1] = Some(JobOutputUri(submissions[k].invocationArn)
                                    \o <<"output.mp4">>)

\* a string, as its "/"-separated segments, is empty
IsEmptyString(segs) == segs = <<"">>

\* C17 as stated: a monitor that ended on Completed handed back a
\* non-empty location, and one that ended on Failed reported a non-empty
\* failure reason (the failureMessage it printed).
C17_ReasonNonEmpty ==
    \A k \in 1..Len(calls) :
        /\ (IsPoll(k) /\ calls[k].status = "Completed" /\ entry # Batch) =>
              (ret # None /\ ~IsEmptyString(ret[1]))
        /\ (IsPoll(k) /\ calls[k].status = "Failed") =>
              (calls[k + 1].op = "print" /\ calls[k + 1].text # "")

\* C17 amended: a monitor that ended on Completed handed back a non-empty
\* location, whose last segment is "output.mp4"; one that ended on Failed
\* raised RuntimeError with a non-empty text, and the reason it printed is
\* the failureMessage of the response as the service sent it, empty or
\* not.
C17_ResultAndErrorTextNonEmpty ==
    \A k \in 1..Len(calls) :
        /\ (IsPoll(k) /\ calls[k].status = "Completed") =>
              LET uri == IF entry = Batch
                         THEN video_uris[Len(video_uris)][1]
                         ELSE ret
              IN /\ uri # None
                 /\ ~IsEmptyString(uri[1])
                 /\ Len(uri[1]) >= 1
                 /\ uri[1][Len(uri[1])] = "output.mp4"
        /\ (IsPoll(k) /\ calls[k].status = "Failed") =>
              /\ pc = "raised"
              /\ err.type = "RuntimeError"
              /\ err.msg # ""
              /\ calls[k + 1].op = "print"
              /\ calls[k + 1].text = calls[k].failureMessage

\* C17 witness: a job failed with an empty failureMessage.
C17_Witness ==
    /\ pc = "raised"
    /\ err.type = "RuntimeError"
    /\ \E k \in PollIdx :
         calls[k].status = "Failed" /\ calls[k].failureMessage = ""

\* C18: the k-th tuple collected by process_videos_from_prompts belongs to
\* the k-th created job: its URI is the output location of that job with
\* "/output.mp4", its prompt is the text submitted for that job, which is
\* the prompt of the job's item in prompt_list; the items of the tuples
\* increase, so the tuples keep the order of the input; the returned list
\* is the collected one.
C18_TuplePairsUriWithItsPrompt ==
    entry = Batch =>
        /\ Len(video_uris) <= Len(submissions)
        /\ \A k \in 1..Len(video_uris) :
             /\ submissions[k].invocationArn = k
             /\ video_uris[k][1] =
                  Some(<<"s3:", "", BUCKET,
                         IF k % 2 = 1 THEN "out1" ELSE "out2", "output.mp4">>)
             /\ video_uris[k][2] = submissions[k].modelInput.text
             /\ video_uris[k][2] = prompt_list[submissions[k].item]
        /\ \A a, b \in 1..Len(video_uris) :
             a < b => submissions[a].item < submissions[b].item
        /\ pc = "returned" => ret = video_uris

\* C18 witness: a batch of two different prompts returned two tuples.
C18_Witness ==
    /\ entry = Batch
    /\ pc = "returned"
    /\ Len(ret) = 2
    /\ prompt_list[1] # prompt_list[2]

----------------------------------------------------------------------------
(* Display loop *)

\* the entries the display loop has gone through
Processed == { k \in 1..Len(video_uris) :
                 \E m \in 1..Len(calls) : calls[m].index = k }

\* C19: the display loop goes through the entries one by one and ends
\* having gone through all of them, without raising: an entry with a
\* missing URI gets a message and no download; any other entry gets one
\* download_file of its key to its own local path, and is put into the
\* page when the download succeeded, or gets an error message and is left
\* out when it raised; the page holds the shown entries in list order.
C19_DisplayProcessesEveryEntry ==
    entry = DisplayLoop =>
        /\ err = NoError
        /\ Processed = 1..(i - 1)
        /\ i <= Len(video_uris) + 1
        /\ pc = "displayed" => (i = Len(video_uris) + 1 /\ ret = video_html)
        /\ \A k \in Processed :
             LET ev == { m \in 1..Len(calls) : calls[m].index = k }
                 dl == { m \in ev : calls[m].op = "download_file" }
                 shown == { n \in 1..Len(video_html) :
                              video_html[n].index = k }
             IN
             IF IsMissingUri(video_uris[k][1])
             THEN /\ dl = {}
                  /\ shown = {}
                  /\ \A m \in ev : calls[m].text = "skip"
             ELSE /\ Cardinality(dl) = 1
                  /\ \A m \in dl :
                       /\ calls[m].key = FileKey(video_uris[k][1][1])
                       /\ calls[m].path = <<OUTPUT_DIR, k>>
                       /\ calls[m].ok =>
                            /\ Cardinality(ev) = 1
                            /\ Cardinality(shown) = 1
                            /\ \A n \in shown :
                                 video_html[n].prompt = video_uris[k][2]
                       /\ ~calls[m].ok =>
                            /\ shown = {}
                            /\ calls[m + 1].op = "print"
                            /\ calls[m + 1].text = "error"
                            /\ calls[m + 1].index = k
        /\ \A a, b \in 1..Len(video_html) :
             a < b => video_html[a].index < video_html[b].index

\* C19 witness: the download of the first entry raised, the second entry
\* has a missing URI, and the loop went through both and showed the page.
C19_Witness ==
    /\ entry = DisplayLoop
    /\ pc = "displayed"
    /\ Len(video_uris) = 2
    /\ video_uris[2][1] = None
    /\ Len(calls) = 3
    /\ calls[1].op = "download_file"
    /\ ~calls[1].ok

----------------------------------------------------------------------------
(* One vrag attempt from lookup to outcome *)

\* an error of a service call left the attempt
TransportError ==
    err.type \in {"ClientError", "EndpointConnectionError", "AttributeError"}

\* position of a call in the attempt: lookup, asset fetch, submit, monitor
Phase(c) ==
    IF c.op \in {"invoke_model", "search"} THEN 1
    ELSE IF c.op = "get_object" THEN 2
    ELSE IF c.op = "start_async_invoke" THEN 3
    ELSE 4

VragCompleted ==
    /\ pc = "returned"
    /\ ret # None
    /\ \E k \in PollIdx :
         /\ calls[k].status = "Completed"
         /\ ret = Some(OutputLocation(calls[k].s3Uri))

VragFailed ==
    /\ pc = "raised"
    /\ err.type = "RuntimeError"
    /\ \E k \in PollIdx : calls[k].status = "Failed"

VragSkipped ==
    /\ pc = "returned"
    /\ ret = None
    /\ submissions = <<>>
    /\ StartIdx = {}
    /\ Len(lookups) = 1
    /\ lookups[1].hits = <<>>

\* C20: a vrag attempt of the multi-video notebook begins with the lookup
\* (embedding, then search) and its calls come in the order lookup, asset
\* fetch, submit, polls; a submit has a lookup hit and the asset fetch
\* before it, a poll has a submit that created a job before it; and an
\* attempt that ended without an error of a service call ended in exactly
\* one of: a URI returned after a Completed poll, RuntimeError raised
\* after a Failed poll, or None returned after a miss with nothing
\* submitted.
C20_VragLifecycle ==
    entry = Vrag =>
        /\ pc # "query" =>
             /\ Len(calls) >= 2
             /\ calls[1].op = "invoke_model"
             /\ calls[2].op = "search"
        /\ \A a, b \in 1..Len(calls) :
             a < b => Phase(calls[a]) <= Phase(calls[b])
        /\ \A k \in StartIdx :
             /\ Len(lookups) = 1
             /\ lookups[1].hits # <<>>
             /\ \E m \in 1..(k - 1) : calls[m].op = "get_object"
        /\ Cardinality(StartIdx) <= 1
        /\ \A k \in PollIdx :
             /\ \E m \in 1..(k - 1) : m \in StartIdx
             /\ Len(submissions) = 1
             /\ submissions[1].invocationArn = calls[k].invocationArn
             /\ calls[k].invocationArn # 0
        /\ (Ended /\ ~TransportError) =>
             /\ VragCompleted \/ VragFailed \/ VragSkipped
             /\ ~(VragCompleted /\ VragFailed)
             /\ ~(VragCompleted /\ VragSkipped)
             /\ ~(VragFailed /\ VragSkipped)

\* C20 witness: a vrag attempt that went through lookup, asset fetch,
\* submit, a pending poll with its sleep, and a Failed poll.
C20_Witness ==
    /\ entry = Vrag
    /\ VragFailed
    /\ SleepIdx # {}
    /\ \E k \in 1..Len(calls) : calls[k].op = "get_object"

----------------------------------------------------------------------------
(* Errors of the service calls *)

\* C21 as stated: whenever start_async_invoke raised, whatever the
\* exception, start_video_generation has logged it and ended with that
\* same exception.
C21_StartErrorPropagatesSame ==
    \A k \in StartIdx :
        calls[k].raised # NoError =>
            /\ pc = "raised"
            /\ err = calls[k].raised
            /\ k < Len(calls)
            /\ calls[k + 1].op = "print"

----------------------------------------------------------------------------
(* Statuses the monitor does not know *)

\* polls answered with a status that is neither Completed nor Failed
NonTerminalIdx ==
    { k \in PollIdx : calls[k].status \notin {"Completed", "Failed", "raise"} }

\* C23: after a poll answered with any status other than Completed or
\* Failed, a status the monitor does not know included (for which it
\* prints nothing), the monitor has neither returned nor raised by that
\* poll: what follows it is the sleep of 60 seconds and then the next poll
\* of the same handle.
C23_OtherStatusIsNonTerminal ==
    \A k \in NonTerminalIdx :
        LET printed == IF calls[k].status = "InProgress" THEN 1 ELSE 0
            nxt == k + printed + 1
        IN
        /\ (printed = 0 /\ k < Len(calls)) => calls[k + 1].op # "print"
        /\ nxt > Len(calls) =>
             /\ pc = "sleep"
             /\ err = NoError
        /\ nxt <= Len(calls) =>
             /\ calls[nxt] = [op |-> "sleep", seconds |-> PollInterval]
             /\ nxt = Len(calls) => (pc = "poll" /\ err = NoError)
             /\ nxt < Len(calls) =>
                  /\ IsPoll(nxt + 1)
                  /\ calls[nxt + 1].invocationArn = calls[k].invocationArn

\* C23 witness: a poll answered "Submitted", which the monitor does not
\* know, was followed by the sleep and by another poll.
C23_Witness ==
    \E k \in NonTerminalIdx :
        /\ calls[k].status = "Submitted"
        /\ k + 2 <= Len(calls)
        /\ IsSleep(k + 1)
        /\ IsPoll(k + 2)

----------------------------------------------------------------------------
(* Ingestion *)

\* the image a field of a document belongs to
SameImage(doc) ==
    /\ doc.description = doc.image_vector
    /\ doc.image_base64_s3_uri[5].stem = doc.image_vector.stem
    /\ doc.image_s3_uri[5] = doc.image_vector

\* C24 as stated: for any contents of the images directory, every indexed
\* document has embedding, description, encoded-asset URI and
\* original-asset URI of one and the same source image, and a completed
\* ingestion has indexed exactly one document per source image.
C24_OneDocumentPerImage ==
    entry = Ingestion =>
        /\ \A doc \in store : SameImage(doc)
        /\ pc = "done" =>
             /\ Cardinality(store) = Cardinality(args.images_dir)
             /\ \A f \in args.images_dir :
                  \E doc \in store : doc.image_s3_uri[5] = f


\* C25: during ingestion every index write but the first comes right
\* after a sleep of 5 seconds which itself comes right after the previous
\* index write; a write is due only when the log is empty or ends with
\* that sleep.
C25_DelayBetweenWrites ==
    entry = Ingestion =>
        /\ \A k \in 1..Len(calls) :
             (calls[k].op = "index" /\ k > 1) =>
                /\ calls[k - 1] = [op |-> "sleep", seconds |-> 5]
                /\ k > 2
                /\ calls[k - 2].op = "index"
        /\ (pc = "index" /\ calls # <<>>) =>
             calls[Len(calls)] = [op |-> "sleep", seconds |-> 5]

\* C25 witness: a second document was written, after the first write and
\* its sleep.
C25_Witness ==
    /\ entry = Ingestion
    /\ Len(calls) >= 3
    /\ calls[1].op = "index"
    /\ IsSleep(2)
    /\ calls[3].op = "index"
    /\ Cardinality(store) = 2

----------------------------------------------------------------------------
(* Lookups *)

\* the calls that would change the vector index
IndexWrites == {"index", "create", "delete", "update", "bulk"}

\* C26: no step of vrag, of the inpainting vrag or of
\* process_videos_from_prompts changes the vector index, whatever the
\* number of lookups and generation attempts made, and none of their
\* calls is a write to the index: the only call they make on it is search.
C26_LookupIsReadOnly ==
    /\ [][store' = store]_vars
    /\ [](\A k \in 1..Len(calls) : calls[k].op \notin IndexWrites)

\* C26 witness: a batch of two made two lookups on an index of two assets
\* and completed two generation attempts.
C26_Witness ==
    /\ entry = Batch
    /\ pc = "returned"
    /\ store = AssetNames
    /\ Len(lookups) = 2
    /\ Len(video_uris) = 2


\* C27: every search of vrag and process_videos_from_prompts asks for one
\* neighbour (k = 1) and one result (size = 1); every lookup returned at
\* most one hit; and the object fetched for an attempt is the one the
\* first hit of the attempt's lookup names.
C27_SingleNearestNeighbour ==
    entry \in {Vrag, Batch} =>
        /\ \A k \in 1..Len(calls) :
             calls[k].op = "search" => (calls[k].k = 1 /\ calls[k].size = 1)
        /\ \A n \in 1..Len(lookups) : Len(lookups[n].hits) <= 1
        /\ \A k \in 1..Len(calls) :
             calls[k].op = "get_object" =>
                /\ lookups[Len(lookups)].hits # <<>>
                /\ calls[k].key =
                     FileKey(lookups[Len(lookups)].hits[1].image_base64_s3_uri)

\* C27 witness: the index holds two assets, the lookup of a vrag attempt
\* returned one of them and its object was fetched.
C27_Witness ==
    /\ entry = Vrag
    /\ store = AssetNames
    /\ Len(lookups) = 1
    /\ Len(lookups[1].hits) = 1
    /\ Len(calls) = 3
    /\ calls[3].op = "get_object"

----------------------------------------------------------------------------
(* Embedding requests *)

\* the embedding requests sent by get_titan_multimodal_embedding
EmbeddingRequests ==
    IF entry = "get_titan_multimodal_embedding"
    THEN { calls[k].body : k \in 1..Len(calls) }
    ELSE {}

\* C28 as stated: every embedding request holds exactly one of image
\* content and text content, whatever image_path and description are.
C28_ExactlyOneContent ==
    \A body \in EmbeddingRequests :
        (body.inputImage # None) # (body.inputText # None)

\* C28: a request of get_titan_multimodal_embedding holds image content
\* exactly when image_path is a non-empty string and text content (the
\* description itself) exactly when description is a non-empty string; so
\* it holds exactly one of the two exactly when one of the two arguments
\* is given, both when both are given, and neither when neither is.
C28_ContentFollowsArguments ==
    \A body \in EmbeddingRequests :
        /\ (body.inputImage # None) <=> Truthy(args.image_path)
        /\ (body.inputText # None) <=> Truthy(args.description)
        /\ Truthy(args.description) => body.inputText = args.description
        /\ body.outputEmbeddingLength = args.dimension

\* C28 witness: a request was sent for a call with both an image path and
\* a description.
C28_Witness ==
    /\ entry = "get_titan_multimodal_embedding"
    /\ Truthy(args.image_path)
    /\ Truthy(args.description)
    /\ pc = "returned"
    /\ Len(calls) = 1

----------------------------------------------------------------------------
(* Upload of the inpainted image *)

\* C29: upload_file_to_s3 ends by returning True or False, never by
\* raising; it returns True exactly when put_object was called with the
\* base64 text of the file under the given bucket and key and succeeded;
\* when reading the file failed put_object was not called, and every
\* failure was printed.
C29_UploadReturnsWhetherStored ==
    (entry = "upload_file_to_s3" /\ pc # "call") =>
        /\ pc = "returned"
        /\ err = NoError
        /\ ret \in {Some(TRUE), Some(FALSE)}
        /\ ret = Some(TRUE) <=>
             \E k \in 1..Len(calls) :
                /\ calls[k].op = "put_object"
                /\ calls[k].ok
                /\ calls[k].Body = EncodedFile(args.local_file_path)
                /\ calls[k].Bucket = args.bucket_name
                /\ calls[k].Key = args.key_file
        /\ ret = Some(FALSE) =>
             /\ calls # <<>>
             /\ calls[Len(calls)].op = "print"

\* C29 witness: put_object raised and upload_file_to_s3 returned False.
C29_Witness ==
    /\ entry = "upload_file_to_s3"
    /\ pc = "returned"
    /\ ret = Some(FALSE)
    /\ Len(calls) = 2
    /\ calls[1].op = "put_object"

----------------------------------------------------------------------------
(* The two definitions of build_model_input *)

\* the two payloads agree on everything but the images
SameButImages(t, u) ==
    /\ t.taskType = u.taskType
    /\ t.text = u.text
    /\ t.durationSeconds = u.durationSeconds
    /\ t.fps = u.fps
    /\ t.dimension = u.dimension
    /\ t.seed = u.seed

\* C30 as stated: for every input the two definitions of
\* build_model_input return the same payload, the images field included,
\* with and without a reference image.
C30_SamePayload ==
    (entry = "build_model_input" /\ pc = "returned") =>
        /\ SameButImages(ret.text_only, ret.text_image)
        /\ ret.text_only.images = Some(ret.text_image.images)

\* C30: for every input the two definitions of build_model_input return
\* the same task type, prompt text, duration, fps, resolution and seed;
\* with a non-empty reference image both carry the same one-element
\* images list; with an absent, empty or None image the text-only
\* definition leaves the images key out while the text-and-image
\* definition sets it to the empty list.
C30_SamePayloadButEmptyImages ==
    (entry = "build_model_input" /\ pc = "returned") =>
        /\ SameButImages(ret.text_only, ret.text_image)
        /\ ret.text_only.text = args.prompt
        /\ IF Truthy(args.image_base64)
           THEN /\ ret.text_only.images = Some(ret.text_image.images)
                /\ ret.text_image.images =
                     << [format |-> "png", bytes |-> args.image_base64[1]] >>
           ELSE /\ ret.text_only.images = None
                /\ ret.text_image.images = << >>

\* C30 witness: both definitions were applied to a prompt and a reference
\* image.
C30_Witness ==
    /\ entry = "build_model_input"
    /\ pc = "returned"
    /\ args.image_base64 = Some("b64:shoes")
    /\ ret.text_only.images # None

====
